---- MODULE Spec2Model ----
(***************************************************************************)
(* Fish Agent Reward Server (Assets/Scripts/server/server.py).             *)
(*                                                                         *)
(* The model follows the execution structure of the server:                *)
(*   - upload_video is an asyncio coroutine.  Code between two awaits runs *)
(*     without interleaving on the event loop, so each such stretch is one *)
(*     action (Receive, ReadChunk, StartClassify, Finish).                 *)
(*   - segment_uploaded_video and classify_segmented_video run on worker   *)
(*     threads (asyncio.to_thread); they interleave freely with each other *)
(*     and with the event loop and are cut at every lock operation and at  *)
(*     every read or write of the module globals.                          *)
(*   - calls into torch / cv2 / SAM2 / transformers are nondeterministic:  *)
(*     they return or raise.                                               *)
(* os.remove of an existing, closed temp file is taken to succeed.         *)
(***************************************************************************)
EXTENDS Integers, Sequences, FiniteSets, TLC

\* ---------------------------------------------------------------- bounds
\* Sizes are counted in model units: at most CHUNK_SIZE units come back from one
\* file.read(1024 * 1024), and MAX_FILE_SIZE units is the upload limit.
MAX_FILE_SIZE == 1
CHUNK_SIZE == 1
\* frames the decoder may deliver for one video
MaxFrames == 4
\* VIDEO_CLASS_FRAME_COUNT is read from the environment (default "16")
VIDEO_CLASS_FRAME_COUNT == 2
\* a window's score is one of 0/ScoreScale .. ScoreScale/ScoreScale
ScoreScale == 1
\* sequence_count passed by classify_segmented_video
SEQUENCE_COUNT == 4

\* Two upload requests in flight: every interleaving of a pair of coroutines and
\* worker threads on the shared globals and locks.
Req == {1, 2}
None == 0

Max(a, b) == IF a >= b THEN a ELSE b
Min(a, b) == IF a <= b THEN a ELSE b

VARIABLES
  \* process-wide import results (server.py 16-45)
  SAM2_AVAILABLE, TRANSFORMERS_AVAILABLE, torch, cv2,
  \* module globals (server.py 87-98)
  sam2_predictor, sam2_mask_generator, sam2_device,
  video_processor, video_classifier, video_device,
  locks,
  \* the temp directory: names of the files that exist
  files,
  \* per request: control state and locals of upload_video and its threads
  pc, file_size, total_size, status, segmented_path, classification_target,
  reward_value, local, cls_result,
  \* per request: history (what the call did so far)
  created, events, score_log, handles,
  \* process-wide history: model constructions that completed
  sam2_builds, video_builds,
  \* frame sampler exercised on its own (SamplerSpec)
  s_pc, s_frames, s_frame_count, s_sequence_count, s_sequences,
  \* analyze_video exercised on its own (AnalyzerSpec): its inputs, its locals
  \* (video_analyze.py 26-30) and its return value
  a_pc, a_import_ok, a_opened, a_video, max_frames,
  prev_gray, diffs_sum, diffs_count, frames_read, score,
  \* the mask handling of segment_uploaded_video exercised on its own
  \* (SegmenterSpec): locals of lines 257-347
  m_pc, masks, target_width, target_height, background_ratio,
  background_ids, object_ids, obj_idx, prompts,
  frame_files, frame_idx, mask_dict, result_frame

globalVars == <<sam2_predictor, sam2_mask_generator, sam2_device,
                video_processor, video_classifier, video_device>>
availVars == <<SAM2_AVAILABLE, TRANSFORMERS_AVAILABLE, torch, cv2>>
buildVars == <<sam2_builds, video_builds>>
reqVars == <<pc, file_size, total_size, status, segmented_path,
             classification_target, reward_value, local, cls_result>>
histVars == <<created, events, score_log, handles>>
samplerVars == <<s_pc, s_frames, s_frame_count, s_sequence_count, s_sequences>>
segmenterVars == <<m_pc, masks, target_width, target_height, background_ratio,
                   background_ids, object_ids, obj_idx, prompts,
                   frame_files, frame_idx, mask_dict, result_frame>>
analyzerVars == <<a_pc, a_import_ok, a_opened, a_video, max_frames,
                  prev_gray, diffs_sum, diffs_count, frames_read, score>>
serverVars == <<availVars, globalVars, locks, files, reqVars, histVars, buildVars>>
vars == <<serverVars, samplerVars, analyzerVars, segmenterVars>>

LockNames == {"sam2_init_lock", "sam2_infer_lock", "video_init_lock", "video_infer_lock"}

\* file names: the request that created the file, and its kind
NoPath == <<0, "none">>
UploadFile(r) == <<r, "upload">>
SegmentedFile(r) == <<r, "segmented">>
FramesDir(r) == <<r, "frames_dir">>

\* reward values are fractions <<numerator, denominator>>
Zero == <<0, 1>>

\* torch.device("cuda" if torch.cuda.is_available() else "cpu")
DEVICE == "cuda_or_cpu"

\* locals of the worker-thread functions
NoLocal == [predictor |-> None, mask_generator |-> None,
            processor |-> None, classifier |-> None, device |-> "None",
            frame_sequences |-> <<>>]
NoResult == [case |-> "none", value |-> Zero]
NoHandles == [sam2 |-> None, video |-> None]

ServerInit ==
  /\ sam2_predictor = None
  /\ sam2_mask_generator = None
  /\ sam2_device = "None"
  /\ video_processor = None
  /\ video_classifier = None
  /\ video_device = "None"
  /\ locks = [l \in LockNames |-> None]
  /\ files = {}
  /\ pc = [r \in Req |-> "idle"]
  /\ file_size = [r \in Req |-> 0]
  /\ total_size = [r \in Req |-> 0]
  /\ status = [r \in Req |-> "none"]
  /\ segmented_path = [r \in Req |-> NoPath]
  /\ classification_target = [r \in Req |-> NoPath]
  /\ reward_value = [r \in Req |-> Zero]
  /\ local = [r \in Req |-> NoLocal]
  /\ cls_result = [r \in Req |-> NoResult]
  /\ created = [r \in Req |-> {}]
  /\ events = [r \in Req |-> <<>>]
  /\ score_log = [r \in Req |-> 0]
  /\ handles = [r \in Req |-> NoHandles]
  /\ sam2_builds = 0
  /\ video_builds = 0

SamplerIdle ==
  /\ s_pc = "off"
  /\ s_frames = <<>>
  /\ s_frame_count = 1
  /\ s_sequence_count = 1
  /\ s_sequences = <<>>

\* server.py 293-347: no mask handling in progress
SegmenterIdle ==
  /\ m_pc = "off"
  /\ masks = <<>>
  /\ target_width = 1
  /\ target_height = 1
  /\ background_ratio = <<1, 5>>
  /\ background_ids = <<>>
  /\ object_ids = <<>>
  /\ obj_idx = 0
  /\ prompts = <<>>
  /\ frame_files = 0
  /\ frame_idx = 0
  /\ mask_dict = {}
  /\ result_frame = {}

\* video_analyze.py line 26: prev_gray is None
NoFrame == 0 - 1

\* video_analyze.py: no call of analyze_video in progress
AnalyzerIdle ==
  /\ a_pc = "off"
  /\ a_import_ok = TRUE
  /\ a_opened = FALSE
  /\ a_video = <<>>
  /\ max_frames = 0
  /\ prev_gray = NoFrame
  /\ diffs_sum = 0
  /\ diffs_count = 0
  /\ frames_read = 0
  /\ score = Zero

Init ==
  /\ SAM2_AVAILABLE \in BOOLEAN
  /\ TRANSFORMERS_AVAILABLE \in BOOLEAN
  /\ torch \in BOOLEAN
  /\ cv2 \in BOOLEAN
  /\ ServerInit
  /\ SamplerIdle
  /\ AnalyzerIdle
  /\ SegmenterIdle

\* ------------------------------------------------- load_video_frame_sequences
\* variant: int() truncation instead of round()
PyRound_Trunc(n, d) == n \div d

\* Python 3 round() of the float n / d (d > 0, n >= 0): ties go to the even integer
PyRound(n, d) ==
  LET q == n \div d
      rem == n % d
  IN IF 2 * rem < d THEN q
     ELSE IF 2 * rem > d THEN q + 1
     ELSE IF q % 2 = 0 THEN q ELSE q + 1

\* [x] * k
Repeat(x, k) == [i \in 1..k |-> x]

\* processed_frames after the padding of lines 411-414
\* variant: the padding repeats the first frame instead of the last one
PadFrames_FirstFrame(frames, frame_count) ==
  IF Len(frames) < frame_count
  THEN frames \o Repeat(frames[1], frame_count - Len(frames))
  ELSE frames

PadFrames(frames, frame_count) ==
  IF Len(frames) < frame_count
  THEN frames \o Repeat(frames[Len(frames)], frame_count - Len(frames))
  ELSE frames

\* variant: the single window is taken from the end of the video
StartIndices_FromEnd(total_frames, frame_count, sequence_count) ==
  IF sequence_count <= 1 \/ total_frames <= frame_count
  THEN <<Max(total_frames - frame_count, 0)>>
  ELSE LET max_start == Max(total_frames - frame_count, 0)
       IN IF sequence_count = 1 \/ max_start = 0
          THEN <<0>>
          ELSE [k \in 1..sequence_count |->
                  PyRound((k - 1) * max_start, sequence_count - 1)]

\* start_indices of lines 416-426 (0-based, kept as a 1-indexed sequence)
StartIndices(total_frames, frame_count, sequence_count) ==
  IF sequence_count <= 1 \/ total_frames <= frame_count
  THEN <<0>>
  ELSE LET max_start == Max(total_frames - frame_count, 0)
       IN IF sequence_count = 1 \/ max_start = 0
          THEN <<0>>
          ELSE [k \in 1..sequence_count |->
                  PyRound((k - 1) * max_start, sequence_count - 1)]

\* processed_frames[start:end] with the tail padding of lines 430-433
Window(processed, start, frame_count) ==
  LET end == start + frame_count
      seq == SubSeq(processed, start + 1, Min(end, Len(processed)))
  IN IF Len(seq) < frame_count /\ seq # <<>>
     THEN seq \o Repeat(seq[Len(seq)], frame_count - Len(seq))
     ELSE seq

\* lines 406-436, applied to the decoded frames
LoadVideoFrameSequences(frames, frame_count, sequence_count) ==
  IF frames = <<>>
  THEN <<>>
  ELSE LET processed == PadFrames(frames, frame_count)
           starts == StartIndices(Len(processed), frame_count, sequence_count)
       IN [k \in 1..Len(starts) |-> Window(processed, starts[k], frame_count)]

\* a decoded video of n frames; frame i is the number i
Video(n) == [i \in 1..n |-> i]


\* ------------------------------------------------------------ upload_video
\* inputs of one request
\* file_size as declared by the client: at the limit, or above it
DeclaredSizes == {MAX_FILE_SIZE, MAX_FILE_SIZE + 1}
\* file.content_type: absent, or <<type, subtype>>
NoContentType == <<"", "">>
ContentTypes == {NoContentType, <<"video", "mp4">>, <<"text", "plain">>}

\* variant: the declared size is not checked
DeclaredTooLarge_Never(fs) == FALSE

\* line 540
DeclaredTooLarge(fs) == fs > MAX_FILE_SIZE
\* line 547: file.content_type and not file.content_type.startswith('video/')
InvalidFileType(ct) == ct # NoContentType /\ ct[1] # "video"
\* variant: the running total is allowed one chunk above the maximum
StreamTooLarge_Slack(ts) == ts > MAX_FILE_SIZE + CHUNK_SIZE

\* line 570
StreamTooLarge(ts) == ts > MAX_FILE_SIZE

Append1(f, r, e) == [f EXCEPT ![r] = Append(@, e)]
Happened(r, e) == \E i \in 1..Len(events[r]) : events[r][i] = e

UNCHANGED_models == UNCHANGED <<availVars, globalVars, buildVars, samplerVars, analyzerVars, segmenterVars>>

\* lines 535-558, up to the first await: the two up-front checks, then the
\* creation of the upload temp file.  Requests are numbered as they arrive.
Receive(r) ==
  /\ pc[r] = "idle"
  /\ \A q \in Req : q < r => pc[q] # "idle"
  /\ \E fs \in DeclaredSizes, ct \in ContentTypes :
       /\ file_size' = [file_size EXCEPT ![r] = fs]
       /\ IF DeclaredTooLarge(fs)
          THEN /\ status' = [status EXCEPT ![r] = "413"]
               /\ pc' = [pc EXCEPT ![r] = "done"]
               /\ UNCHANGED <<files, created>>
          ELSE IF InvalidFileType(ct)
          THEN /\ status' = [status EXCEPT ![r] = "400"]
               /\ pc' = [pc EXCEPT ![r] = "done"]
               /\ UNCHANGED <<files, created>>
          ELSE /\ files' = files \cup {UploadFile(r)}
               /\ created' = [created EXCEPT ![r] = @ \cup {UploadFile(r)}]
               /\ pc' = [pc EXCEPT ![r] = "reading"]
               /\ UNCHANGED status
  /\ UNCHANGED <<total_size, segmented_path, classification_target, reward_value,
                 local, cls_result, events, score_log, handles, locks>>
  /\ UNCHANGED_models

\* variant: the rejection is recorded but the request carries on to the analysis
AbortIngestion_KeepGoing(r, code) ==
  /\ status' = [status EXCEPT ![r] = code]
  /\ events' = Append1(events, r, "ingest_done")
  /\ pc' = [pc EXCEPT ![r] = "seg_entry"]
  /\ UNCHANGED files

\* variant: the error is raised without the finally block that removes the file
AbortIngestion_NoFinally(r, code) ==
  /\ status' = [status EXCEPT ![r] = code]
  /\ events' = Append1(events, r, "cleanup")
  /\ pc' = [pc EXCEPT ![r] = "done"]
  /\ UNCHANGED files

\* lines 629-638 after an HTTPException raised inside the ingestion loop
AbortIngestion(r, code) ==
  /\ status' = [status EXCEPT ![r] = code]
  /\ files' = files \ {UploadFile(r)}
  /\ events' = Append1(events, r, "cleanup")
  /\ pc' = [pc EXCEPT ![r] = "done"]

\* lines 563-571: a chunk arrives, is written, and the running total is checked
ReadChunk(r) ==
  /\ pc[r] = "reading"
  /\ \E n \in 1..CHUNK_SIZE :
       /\ total_size' = [total_size EXCEPT ![r] = @ + n]
       /\ IF StreamTooLarge(total_size[r] + n)
          THEN AbortIngestion(r, "413")
          ELSE UNCHANGED <<status, files, events, pc>>
  /\ UNCHANGED <<file_size, segmented_path, classification_target, reward_value,
                 local, cls_result, created, score_log, handles, locks>>
  /\ UNCHANGED_models

\* lines 573-574: asyncio.wait_for times out
ReadTimeout(r) ==
  /\ pc[r] = "reading"
  /\ AbortIngestion(r, "408")
  /\ UNCHANGED <<file_size, total_size, segmented_path, classification_target,
                 reward_value, local, cls_result, created, score_log, handles, locks>>
  /\ UNCHANGED_models

\* lines 564-565 and 576-589: end of stream; the file is closed, the reception is
\* logged and segment_uploaded_video is handed to a worker thread
ReadEOF(r) ==
  /\ pc[r] = "reading"
  /\ events' = Append1(events, r, "ingest_done")
  /\ reward_value' = [reward_value EXCEPT ![r] = Zero]
  /\ segmented_path' = [segmented_path EXCEPT ![r] = NoPath]
  /\ classification_target' = [classification_target EXCEPT ![r] = UploadFile(r)]
  /\ pc' = [pc EXCEPT ![r] = "seg_entry"]
  /\ UNCHANGED <<file_size, total_size, status, local, cls_result, created,
                 score_log, handles, locks, files>>
  /\ UNCHANGED_models


\* ------------------------------------------------------------------ locks
\* variant: the with-lock blocks are missing
CanAcquire_NonBlocking(l) == TRUE

\* threading.Lock: acquire blocks while another thread holds the lock
CanAcquire(l) == locks[l] = None
Acquired(l, r) == [locks EXCEPT ![l] = r]
\* variant: leaving a with block does not release its lock
Released_Never(l) == locks

\* leaving a with block releases its lock
Released(l) == [locks EXCEPT ![l] = None]

\* variant: a failure inside the inference section leaves the lock held
ReleasedOnFailure_Leak(l) == locks

\* a with block left by an exception or by an early return releases its lock
ReleasedOnFailure(l) == [locks EXCEPT ![l] = None]

uploadLocals == <<file_size, total_size, status, classification_target,
                  reward_value, score_log>>
sam2Globals == <<sam2_predictor, sam2_mask_generator, sam2_device, sam2_builds>>
videoGlobals == <<video_processor, video_classifier, video_device, video_builds>>

\* --------------------------------------------------- segment_uploaded_video
\* lines 242-243 and 390-391: cv2.VideoCapture(path).isOpened() can hold only for
\* a file that exists and is not an empty upload
Openable(r, path) ==
  path \in files /\ ~(path = UploadFile(r) /\ total_size[r] = 0)

\* lines 191 and 230
Sam2DepsAvailable == SAM2_AVAILABLE /\ torch /\ cv2

\* the worker thread returns `path`; upload_video resumes at line 589
SegReturns(r, path) ==
  /\ segmented_path' = [segmented_path EXCEPT ![r] = path]
  /\ local' = [local EXCEPT ![r] = NoLocal]
  /\ pc' = [pc EXCEPT ![r] = "seg_done"]

\* lines 229-235
SegEntry(r) ==
  /\ pc[r] = "seg_entry"
  /\ IF ~Sam2DepsAvailable
     THEN /\ SegReturns(r, NoPath)
          /\ events' = [events EXCEPT ![r] = @ \o <<"seg_start", "seg_ret">>]
     ELSE /\ pc' = [pc EXCEPT ![r] = "sam2_init_acquire"]
          /\ events' = Append1(events, r, "seg_start")
          /\ UNCHANGED <<segmented_path, local>>
  /\ UNCHANGED <<uploadLocals, cls_result, created, handles, locks, files,
                 availVars, sam2Globals, videoGlobals, samplerVars, analyzerVars, segmenterVars>>

\* line 195: with sam2_init_lock
Sam2InitAcquire(r) ==
  /\ pc[r] = "sam2_init_acquire"
  /\ CanAcquire("sam2_init_lock")
  /\ locks' = Acquired("sam2_init_lock", r)
  /\ pc' = [pc EXCEPT ![r] = "sam2_init_check"]
  /\ UNCHANGED <<uploadLocals, segmented_path, local, cls_result, histVars, files,
                 availVars, sam2Globals, videoGlobals, samplerVars, analyzerVars, segmenterVars>>

\* variant: the `is None` test is missing
Sam2NeedsInit_Always == TRUE

\* line 196
Sam2NeedsInit == sam2_predictor = None

\* lines 196 and 211: already built: leave the with block and return the globals
Sam2InitCheck(r) ==
  /\ pc[r] = "sam2_init_check"
  /\ IF Sam2NeedsInit
     THEN /\ pc' = [pc EXCEPT ![r] = "sam2_init_build"]
          /\ UNCHANGED <<locks, local, handles>>
     ELSE /\ locks' = Released("sam2_init_lock")
          /\ local' = [local EXCEPT ![r].predictor = sam2_predictor,
                                    ![r].mask_generator = sam2_mask_generator]
          /\ handles' = [handles EXCEPT ![r].sam2 = sam2_predictor]
          /\ pc' = [pc EXCEPT ![r] = "sam2_infer_acquire"]
  /\ UNCHANGED <<uploadLocals, segmented_path, cls_result, created, events, files,
                 availVars, sam2Globals, videoGlobals, samplerVars, analyzerVars, segmenterVars>>

\* lines 197-211 and 236-238: build_sam2_video_predictor_hf and
\* SAM2AutomaticMaskGenerator each return or raise; an exception leaves the with
\* block and makes segment_uploaded_video return None
Sam2InitBuild(r) ==
  /\ pc[r] = "sam2_init_build"
  /\ locks' = Released("sam2_init_lock")
  /\ \E outcome \in {"predictor_raises", "generator_raises", "ok"} :
       LET new == sam2_builds + 1 IN
       CASE outcome = "predictor_raises" ->
              /\ SegReturns(r, NoPath)
              /\ events' = Append1(events, r, "seg_ret")
              /\ UNCHANGED <<sam2Globals, handles>>
         [] outcome = "generator_raises" ->
              /\ sam2_predictor' = new
              /\ sam2_builds' = new
              /\ SegReturns(r, NoPath)
              /\ events' = Append1(events, r, "seg_ret")
              /\ UNCHANGED <<sam2_mask_generator, sam2_device, handles>>
         [] outcome = "ok" ->
              /\ sam2_predictor' = new
              /\ sam2_builds' = new
              /\ sam2_mask_generator' = new
              /\ sam2_device' = DEVICE
              /\ local' = [local EXCEPT ![r].predictor = new,
                                        ![r].mask_generator = new]
              /\ handles' = [handles EXCEPT ![r].sam2 = new]
              /\ pc' = [pc EXCEPT ![r] = "sam2_infer_acquire"]
              /\ UNCHANGED <<segmented_path, events>>
  /\ UNCHANGED <<uploadLocals, cls_result, created, files,
                 availVars, videoGlobals, samplerVars, analyzerVars, segmenterVars>>

\* line 240: with sam2_infer_lock
Sam2InferAcquire(r) ==
  /\ pc[r] = "sam2_infer_acquire"
  /\ CanAcquire("sam2_infer_lock")
  /\ locks' = Acquired("sam2_infer_lock", r)
  /\ pc' = [pc EXCEPT ![r] = "seg_extract"]
  /\ UNCHANGED <<uploadLocals, segmented_path, local, cls_result, histVars, files,
                 availVars, sam2Globals, videoGlobals, samplerVars, analyzerVars, segmenterVars>>

\* lines 241-329: open the video, extract the frames into frames_dir, propose
\* masks on frame 0, register the prompts and propagate.  Any early return or
\* exception leaves frames_dir removed and returns None; mask_generator.generate
\* raises when the generator was never built.
SegExtract(r) ==
  /\ pc[r] = "seg_extract"
  /\ \E ok \in BOOLEAN :
       IF ok /\ Openable(r, UploadFile(r)) /\ local[r].mask_generator # None
       THEN /\ files' = files \cup {FramesDir(r)}
            /\ created' = [created EXCEPT ![r] = @ \cup {FramesDir(r)}]
            /\ pc' = [pc EXCEPT ![r] = "seg_render"]
            /\ UNCHANGED <<locks, segmented_path, local, events>>
       ELSE /\ locks' = ReleasedOnFailure("sam2_infer_lock")
            /\ SegReturns(r, NoPath)
            /\ events' = Append1(events, r, "seg_ret")
            /\ UNCHANGED <<files, created>>
  /\ UNCHANGED <<uploadLocals, cls_result, handles,
                 availVars, sam2Globals, videoGlobals, samplerVars, analyzerVars, segmenterVars>>

\* lines 331-356: the output file is created by NamedTemporaryFile(delete=False),
\* then the frames are rendered into it.  An exception while rendering is caught
\* at line 354 and None is returned; nothing removes the output file.
SegRender(r) ==
  /\ pc[r] = "seg_render"
  /\ files' = (files \cup {SegmentedFile(r)}) \ {FramesDir(r)}
  /\ created' = [created EXCEPT ![r] = @ \cup {SegmentedFile(r)}]
  /\ \E ok \in BOOLEAN :
       /\ locks' = IF ok THEN Released("sam2_infer_lock")
                   ELSE ReleasedOnFailure("sam2_infer_lock")
       /\ SegReturns(r, IF ok THEN SegmentedFile(r) ELSE NoPath)
  /\ events' = Append1(events, r, "seg_ret")
  /\ UNCHANGED <<uploadLocals, cls_result, handles,
                 availVars, sam2Globals, videoGlobals, samplerVars, analyzerVars, segmenterVars>>

\* variant: the segmentation result is used without the fallback to tmp_path
ClassificationTarget_SegOnly(tmp_path, seg_path) == seg_path

\* variant: the raw upload is always classified
ClassificationTarget_RawOnly(tmp_path, seg_path) == tmp_path

\* lines 586 and 590-591
ClassificationTarget(tmp_path, seg_path) ==
  IF seg_path # NoPath THEN seg_path ELSE tmp_path

\* variant: the classification is not awaited, the finally blocks run at once
StartClassify_NoAwait(r) ==
  /\ pc[r] = "seg_done"
  /\ classification_target' =
       [classification_target EXCEPT ![r] =
          ClassificationTarget(UploadFile(r), segmented_path[r])]
  /\ events' = [events EXCEPT ![r] = @ \o <<"cls_start", "cleanup">>]
  /\ files' = files \ {UploadFile(r), segmented_path[r]}
  /\ pc' = [pc EXCEPT ![r] = "cls_entry"]
  /\ UNCHANGED <<file_size, total_size, status, reward_value, score_log,
                 segmented_path, local, cls_result, created, handles, locks,
                 availVars, sam2Globals, videoGlobals, samplerVars, analyzerVars, segmenterVars>>

\* lines 590-596: upload_video resumes with the segmentation result and hands
\* classify_segmented_video to a worker thread
StartClassify(r) ==
  /\ pc[r] = "seg_done"
  /\ classification_target' =
       [classification_target EXCEPT ![r] =
          ClassificationTarget(UploadFile(r), segmented_path[r])]
  /\ events' = Append1(events, r, "cls_start")
  /\ pc' = [pc EXCEPT ![r] = "cls_entry"]
  /\ UNCHANGED <<file_size, total_size, status, reward_value, score_log,
                 segmented_path, local, cls_result, created, handles, locks, files,
                 availVars, sam2Globals, videoGlobals, samplerVars, analyzerVars, segmenterVars>>


\* ------------------------------------------------- classify_segmented_video
\* lines 360 and 440
VideoDepsAvailable == TRANSFORMERS_AVAILABLE /\ torch

\* the worker thread returns `value` (or raises, case "load_raised")
ClsReturns(r, case, value) ==
  /\ cls_result' = [cls_result EXCEPT ![r] = [case |-> case, value |-> value]]
  /\ local' = [local EXCEPT ![r] = NoLocal]
  /\ pc' = [pc EXCEPT ![r] = "cls_done"]
  /\ events' = Append1(events, r, "cls_ret")

\* what cv2.VideoCapture delivers for `path` (lines 387-407): the number of
\* frames read, or -1 when cv2.resize / cvtColor / the frame list raises.
\* Without cv2, and for a file that cannot be opened, nothing is decoded.
DecodeOutcomes(r, path) ==
  IF ~cv2 \/ ~Openable(r, path)
  THEN {0}
  ELSE {-1, 0, 1, MaxFrames}

\* lines 439-454
ClsEntry(r) ==
  /\ pc[r] = "cls_entry"
  /\ IF ~VideoDepsAvailable
     THEN ClsReturns(r, "unavailable", Zero)
     ELSE \E n \in DecodeOutcomes(r, classification_target[r]) :
            IF n < 0
            THEN ClsReturns(r, "load_raised", Zero)
            ELSE LET seqs == LoadVideoFrameSequences(
                               Video(n), VIDEO_CLASS_FRAME_COUNT, SEQUENCE_COUNT)
                 IN IF seqs = <<>>
                    THEN ClsReturns(r, "no_windows", Zero)
                    ELSE /\ local' = [local EXCEPT ![r].frame_sequences = seqs]
                         /\ pc' = [pc EXCEPT ![r] = "video_init_acquire"]
                         /\ UNCHANGED <<cls_result, events>>
  /\ UNCHANGED <<uploadLocals, segmented_path, created, handles, locks, files,
                 availVars, sam2Globals, videoGlobals, samplerVars, analyzerVars, segmenterVars>>

\* line 364: with video_init_lock
VideoInitAcquire(r) ==
  /\ pc[r] = "video_init_acquire"
  /\ CanAcquire("video_init_lock")
  /\ locks' = Acquired("video_init_lock", r)
  /\ pc' = [pc EXCEPT ![r] = "video_init_check"]
  /\ UNCHANGED <<uploadLocals, segmented_path, local, cls_result, histVars, files,
                 availVars, sam2Globals, videoGlobals, samplerVars, analyzerVars, segmenterVars>>

\* variant: the `is None` test of the classifier is missing
VideoNeedsInit_Always == TRUE

\* line 365
VideoNeedsInit == video_classifier = None

\* lines 365 and 378
VideoInitCheck(r) ==
  /\ pc[r] = "video_init_check"
  /\ IF VideoNeedsInit
     THEN /\ pc' = [pc EXCEPT ![r] = "video_init_build"]
          /\ UNCHANGED <<locks, local, handles>>
     ELSE /\ locks' = Released("video_init_lock")
          /\ local' = [local EXCEPT ![r].processor = video_processor,
                                    ![r].classifier = video_classifier,
                                    ![r].device = video_device]
          /\ handles' = [handles EXCEPT ![r].video = video_classifier]
          /\ pc' = [pc EXCEPT ![r] = "video_infer_acquire"]
  /\ UNCHANGED <<uploadLocals, segmented_path, cls_result, created, events, files,
                 availVars, sam2Globals, videoGlobals, samplerVars, analyzerVars, segmenterVars>>

\* lines 366-378 and 455-457: the two from_pretrained calls and the move to the
\* device each return or raise; an exception leaves the with block and makes
\* classify_segmented_video return 0.0
VideoInitBuild(r) ==
  /\ pc[r] = "video_init_build"
  /\ locks' = Released("video_init_lock")
  /\ \E outcome \in {"processor_raises", "classifier_raises", "to_device_raises", "ok"} :
       LET new == video_builds + 1 IN
       CASE outcome = "processor_raises" ->
              /\ ClsReturns(r, "init_failed", Zero)
              /\ UNCHANGED <<videoGlobals, handles>>
         [] outcome = "classifier_raises" ->
              /\ video_processor' = 1
              /\ ClsReturns(r, "init_failed", Zero)
              /\ UNCHANGED <<video_classifier, video_device, video_builds, handles>>
         [] outcome = "to_device_raises" ->
              /\ video_processor' = 1
              /\ video_classifier' = new
              /\ video_builds' = new
              /\ ClsReturns(r, "init_failed", Zero)
              /\ UNCHANGED <<video_device, handles>>
         [] outcome = "ok" ->
              /\ video_processor' = 1
              /\ video_classifier' = new
              /\ video_builds' = new
              /\ video_device' = DEVICE
              /\ local' = [local EXCEPT ![r].processor = 1,
                                        ![r].classifier = new,
                                        ![r].device = DEVICE]
              /\ handles' = [handles EXCEPT ![r].video = new]
              /\ pc' = [pc EXCEPT ![r] = "video_infer_acquire"]
              /\ UNCHANGED <<cls_result, events>>
  /\ UNCHANGED <<uploadLocals, segmented_path, created, files,
                 availVars, sam2Globals, samplerVars, analyzerVars, segmenterVars>>

\* line 459: with video_infer_lock
VideoInferAcquire(r) ==
  /\ pc[r] = "video_infer_acquire"
  /\ CanAcquire("video_infer_lock")
  /\ locks' = Acquired("video_infer_lock", r)
  /\ pc' = [pc EXCEPT ![r] = "cls_infer"]
  /\ UNCHANGED <<uploadLocals, segmented_path, local, cls_result, histVars, files,
                 availVars, sam2Globals, videoGlobals, samplerVars, analyzerVars, segmenterVars>>

RECURSIVE SumOver(_, _)
SumOver(f, S) ==
  IF S = {} THEN 0
  ELSE LET k == CHOOSE x \in S : TRUE IN f[k] + SumOver(f, S \ {k})

RECURSIVE GCD(_, _)
GCD(a, b) == IF b = 0 THEN a ELSE GCD(b, a % b)

\* the float num / den, kept as a fraction in lowest terms
Fraction(num, den) == <<num \div GCD(num, den), den \div GCD(num, den)>>

\* variant: the sum is not divided by the number of scores
MeanScore_Sum(frame_sequences, scores) ==
  <<SumOver(scores, 1..Len(frame_sequences)), ScoreScale>>

\* lines 461-481: scores[k] / ScoreScale is the probability read at line 472 for
\* window k; empty windows are skipped (line 463); the result is
\* sum(scores) / len(scores), or 0.0 when no window was scored
MeanScore(frame_sequences, scores) ==
  LET used == {k \in 1..Len(frame_sequences) : frame_sequences[k] # <<>>}
  IN IF used # {}
     THEN Fraction(SumOver(scores, used), ScoreScale * Cardinality(used))
     ELSE Zero

\* lines 460-484: the scoring loop under video_infer_lock; the processor, the
\* classifier or the tensor moves may raise at any window (line 482)
ClsInfer(r) ==
  /\ pc[r] = "cls_infer"
  /\ \/ /\ locks' = ReleasedOnFailure("video_infer_lock")
        /\ ClsReturns(r, "raised", Zero)
     \/ /\ locks' = Released("video_infer_lock")
        /\ \E scores \in [1..Len(local[r].frame_sequences) -> 0..ScoreScale] :
             LET seqs == local[r].frame_sequences IN
             ClsReturns(r,
                        IF \E k \in 1..Len(seqs) : seqs[k] # <<>>
                        THEN "scored" ELSE "no_scores",
                        MeanScore(seqs, scores))
  /\ UNCHANGED <<uploadLocals, segmented_path, created, handles, files,
                 availVars, sam2Globals, videoGlobals, samplerVars, analyzerVars, segmenterVars>>

\* ------------------------------------------------- upload_video, lines 596-635
\* lines 588-599 and 622-627: the awaited value becomes the reward; an exception
\* raised by the worker thread is caught at line 597 and the reward is 0.0; the
\* response is returned normally either way
\* variant: no try/except around the two awaits; line 639 answers 500
ResponseOf_Uncaught(result) ==
  IF result.case = "load_raised"
  THEN [status |-> "500", reward |-> Zero]
  ELSE [status |-> "ok", reward |-> result.value]

ResponseOf(result) ==
  IF result.case = "load_raised"
  THEN [status |-> "ok", reward |-> Zero]
  ELSE [status |-> "ok", reward |-> result.value]

\* lines 611-613 and 630-632
FilesAfterCleanup(fs, tmp_path, seg_path) ==
  (IF seg_path # NoPath /\ seg_path \in fs THEN fs \ {seg_path} ELSE fs) \ {tmp_path}

\* upload_video resumes with the classification result: the score is logged, the
\* segmented file and the upload temp file are removed, the response is returned
Finish(r) ==
  /\ pc[r] = "cls_done"
  /\ reward_value' = [reward_value EXCEPT ![r] = ResponseOf(cls_result[r]).reward]
  /\ score_log' = [score_log EXCEPT ![r] = @ + 1]
  /\ files' = FilesAfterCleanup(files, UploadFile(r), segmented_path[r])
  /\ status' = [status EXCEPT ![r] = ResponseOf(cls_result[r]).status]
  /\ events' = Append1(events, r, "cleanup")
  /\ pc' = [pc EXCEPT ![r] = "done"]
  /\ UNCHANGED <<file_size, total_size, classification_target, segmented_path,
                 local, cls_result, created, handles, locks,
                 availVars, sam2Globals, videoGlobals, samplerVars, analyzerVars, segmenterVars>>

Next ==
  \E r \in Req :
    \/ Receive(r)
    \/ ReadChunk(r)
    \/ ReadTimeout(r)
    \/ ReadEOF(r)
    \/ SegEntry(r)
    \/ Sam2InitAcquire(r)
    \/ Sam2InitCheck(r)
    \/ Sam2InitBuild(r)
    \/ Sam2InferAcquire(r)
    \/ SegExtract(r)
    \/ SegRender(r)
    \/ StartClassify(r)
    \/ ClsEntry(r)
    \/ VideoInitAcquire(r)
    \/ VideoInitCheck(r)
    \/ VideoInitBuild(r)
    \/ VideoInferAcquire(r)
    \/ ClsInfer(r)
    \/ Finish(r)

Spec == Init /\ [][Next]_vars

\* the steps of request r after its ingestion: worker threads run by
\* asyncio.to_thread (lines 588-596) and the resumption of upload_video
Analysis(r) ==
  \/ SegEntry(r) \/ Sam2InitAcquire(r) \/ Sam2InitCheck(r) \/ Sam2InitBuild(r)
  \/ Sam2InferAcquire(r) \/ SegExtract(r) \/ SegRender(r) \/ StartClassify(r)
  \/ ClsEntry(r) \/ VideoInitAcquire(r) \/ VideoInitCheck(r) \/ VideoInitBuild(r)
  \/ VideoInferAcquire(r) \/ ClsInfer(r) \/ Finish(r)

\* the same program under a fair scheduler: a thread or coroutine that can take
\* its next step (its model call returned, the lock it waits for is free) takes it
FairSpec == Spec /\ \A r \in Req : WF_vars(Analysis(r))

\* ----------------------------------- the frame sampler exercised on its own
SamplerMaxFrames == 7
SamplerMaxFrameCount == 3
SamplerMaxSequenceCount == 4

SamplerInit ==
  /\ SAM2_AVAILABLE = TRUE
  /\ TRANSFORMERS_AVAILABLE = TRUE
  /\ torch = TRUE
  /\ cv2 = TRUE
  /\ ServerInit
  /\ s_pc = "ready"
  /\ s_frames \in {Video(n) : n \in 0..SamplerMaxFrames}
  /\ s_frame_count \in 1..SamplerMaxFrameCount
  /\ s_sequence_count \in 0..SamplerMaxSequenceCount
  /\ s_sequences = <<>>
  /\ AnalyzerIdle
  /\ SegmenterIdle

\* one call load_video_frame_sequences(video, frame_count, sequence_count)
SamplerRun ==
  /\ s_pc = "ready"
  /\ s_sequences' = LoadVideoFrameSequences(s_frames, s_frame_count, s_sequence_count)
  /\ s_pc' = "returned"
  /\ UNCHANGED <<s_frames, s_frame_count, s_sequence_count, serverVars, analyzerVars, segmenterVars>>

SamplerNext == SamplerRun

SamplerSpec == SamplerInit /\ [][SamplerNext]_vars

\* --------------------- analyze_video (video_analyze.py) exercised on its own
\* a gray level stands for a whole gray frame; PixelMax stands for 255
PixelMax == 2
AnalyzerMaxFrames == 3
AnalyzerMaxMaxFrames == 3

RECURSIVE SeqsUpTo(_, _)
\* all sequences over S of length at most n
SeqsUpTo(S, n) ==
  IF n = 0 THEN {<<>>}
  ELSE LET shorter == SeqsUpTo(S, n - 1)
       IN shorter \cup {Append(q, x) : q \in {t \in shorter : Len(t) = n - 1}, x \in S}

AnalyzerInit ==
  /\ SAM2_AVAILABLE = TRUE
  /\ TRANSFORMERS_AVAILABLE = TRUE
  /\ torch = TRUE
  /\ cv2 = TRUE
  /\ ServerInit
  /\ SamplerIdle
  /\ SegmenterIdle
  /\ a_pc = "ready"
  /\ a_import_ok \in BOOLEAN
  /\ a_opened \in BOOLEAN
  /\ a_video \in SeqsUpTo(0..PixelMax, AnalyzerMaxFrames)
  /\ max_frames \in 0..AnalyzerMaxMaxFrames
  /\ prev_gray = NoFrame
  /\ diffs_sum = 0
  /\ diffs_count = 0
  /\ frames_read = 0
  /\ score = Zero

\* lines 16-30: the imports, cv2.VideoCapture(path), the locals
AnalyzeOpen ==
  /\ a_pc = "ready"
  /\ a_pc' = IF a_import_ok /\ a_opened THEN "loop" ELSE "returned"
  /\ prev_gray' = NoFrame
  /\ diffs_sum' = 0
  /\ diffs_count' = 0
  /\ frames_read' = 0
  /\ score' = Zero
  /\ UNCHANGED <<a_import_ok, a_opened, a_video, max_frames, serverVars, samplerVars, segmenterVars>>

\* variant: the loop reads one frame more than max_frames
LoopContinues_OffByOne(n, limit) == n <= limit

\* line 32
LoopContinues(n, limit) == n < limit

\* lines 40-42: float(absdiff(gray, prev).mean()) / 255.0, in units of 1/PixelMax
MeanNorm(gray, prev) == IF gray >= prev THEN gray - prev ELSE prev - gray

\* lines 52-58: the float num / den clamped to [0, 1]
Clamp(num, den) ==
  IF num < 0 THEN Zero
  ELSE IF num > den THEN <<1, 1>>
  ELSE Fraction(num, den)

\* lines 32-45: one pass of the loop body, when cap.read() delivers a frame
AnalyzeReadFrame ==
  /\ a_pc = "loop"
  /\ LoopContinues(frames_read, max_frames)
  /\ frames_read < Len(a_video)
  /\ LET gray == a_video[frames_read + 1]
     IN /\ frames_read' = frames_read + 1
        /\ IF prev_gray # NoFrame
           THEN /\ diffs_sum' = diffs_sum + MeanNorm(gray, prev_gray)
                /\ diffs_count' = diffs_count + 1
           ELSE UNCHANGED <<diffs_sum, diffs_count>>
        /\ prev_gray' = gray
  /\ UNCHANGED <<a_pc, a_import_ok, a_opened, a_video, max_frames, score,
                 serverVars, samplerVars, segmenterVars>>

\* lines 32-35 and 46-58: the loop ends (limit reached or no more frame), the
\* capture is released and the score is returned
AnalyzeReturn ==
  /\ a_pc = "loop"
  /\ ~LoopContinues(frames_read, max_frames) \/ frames_read >= Len(a_video)
  /\ score' = IF diffs_count = 0 THEN Zero
              ELSE Clamp(diffs_sum, diffs_count * PixelMax)
  /\ a_pc' = "returned"
  /\ UNCHANGED <<a_import_ok, a_opened, a_video, max_frames, prev_gray, diffs_sum,
                 diffs_count, frames_read, serverVars, samplerVars, segmenterVars>>

AnalyzerNext == AnalyzeOpen \/ AnalyzeReadFrame \/ AnalyzeReturn

AnalyzerSpec == AnalyzerInit /\ [][AnalyzerNext]_vars

\* ------- the mask handling of segment_uploaded_video (293-347) on its own
\* Three parts of the function are exercised, each from the values that reach
\* it: the sort and the classification of the proposed masks (298-304), the
\* prompt loop (306-320) and the render loop (339-347).
SegWidth == 2
SegHeight == 2
SegMaxMasks == 2
SegMaxFrames == 2

\* mask_data.get("segmentation") is None: a value that is no set of pixels
NoSegmentation == {0 - 1}
\* SEGMENT_BACKGROUND_RATIO (line 76, read from the environment), as a fraction
BackgroundRatios == {<<1, 5>>, <<1, 2>>, <<1, 1>>}

RECURSIVE SeqsOfLen(_, _)
\* all sequences over S of length n
SeqsOfLen(S, n) ==
  IF n = 0 THEN {<<>>}
  ELSE {Append(q, x) : q \in SeqsOfLen(S, n - 1), x \in S}

\* s with m put behind every element whose area is at least m's
InsertByArea(s, m) ==
  LET k == Cardinality({i \in 1..Len(s) : s[i].area >= m.area})
  IN SubSeq(s, 1, k) \o <<m>> \o SubSeq(s, k + 1, Len(s))

\* variant: the proposed masks are used in the order the generator gave them
SortByArea_Unsorted(ms) == ms

\* line 298: sorted(masks, key=area, reverse=True); the sort is stable
RECURSIVE SortByArea(_)
SortByArea(ms) ==
  IF ms = <<>> THEN <<>>
  ELSE InsertByArea(SortByArea(SubSeq(ms, 1, Len(ms) - 1)), ms[Len(ms)])

\* lines 214-226: indices are 0-based, in the order of enumerate(masks);
\* area / total_area >= background_ratio is compared as fractions
classify_masks_by_area(ms, frame_width, frame_height, ratio) ==
  LET total_area == Max(frame_width * frame_height, 1)
      IsBackground(idx) == ms[idx + 1].area * ratio[2] >= ratio[1] * total_area
      IsObject(idx) == ~IsBackground(idx)
      ids == [i \in 1..Len(ms) |-> i - 1]
  IN [background_ids |-> SelectSeq(ids, IsBackground),
      object_ids |-> SelectSeq(ids, IsObject)]

\* line 293 has returned a non-empty list of masks for frame 0
ClassifyStageInit ==
  /\ m_pc = "generated"
  /\ target_width \in 1..SegWidth
  /\ target_height \in 1..SegHeight
  /\ background_ratio \in BackgroundRatios
  /\ \E n \in 1..SegMaxMasks :
       masks \in SeqsOfLen([area : 0..(SegWidth * SegHeight),
                            segmentation : {NoSegmentation}], n)
  /\ background_ids = <<>>
  /\ object_ids = <<>>
  /\ obj_idx = 0
  /\ prompts = <<>>
  /\ frame_files = 0
  /\ frame_idx = 0
  /\ mask_dict = {}
  /\ result_frame = {}

\* lines 298-304
SortAndClassify ==
  /\ m_pc = "generated"
  /\ masks' = SortByArea(masks)
  /\ LET ids == classify_masks_by_area(SortByArea(masks), target_width,
                                       target_height, background_ratio)
     IN /\ background_ids' = ids.background_ids
        /\ object_ids' = ids.object_ids
  /\ m_pc' = "classified"
  /\ UNCHANGED <<target_width, target_height, background_ratio, obj_idx, prompts,
                 frame_files, frame_idx, mask_dict, result_frame>>
  /\ UNCHANGED <<serverVars, samplerVars, analyzerVars>>

\* the masks the generator can propose for a one-row frame of the given width:
\* a set of pixels (x coordinates) with its size as area, or no segmentation
ProposedMasks(width) ==
  {[area |-> Cardinality(seg), segmentation |-> seg] : seg \in SUBSET (0..(width - 1))}
    \cup {[area |-> 0, segmentation |-> NoSegmentation]}

\* line 304 has been passed: the masks are sorted and classified
PromptStageInit ==
  /\ m_pc = "prompting"
  /\ target_width \in 1..SegWidth
  /\ target_height = 1
  /\ background_ratio \in BackgroundRatios
  /\ \E n \in 1..SegMaxMasks :
       masks \in {SortByArea(ms) : ms \in SeqsOfLen(ProposedMasks(target_width), n)}
  /\ background_ids =
       classify_masks_by_area(masks, target_width, target_height,
                              background_ratio).background_ids
  /\ object_ids =
       classify_masks_by_area(masks, target_width, target_height,
                              background_ratio).object_ids
  /\ obj_idx = 0
  /\ prompts = <<>>
  /\ frame_files = 0
  /\ frame_idx = 0
  /\ mask_dict = {}
  /\ result_frame = {}

RECURSIVE SumOfSet(_)
SumOfSet(S) == IF S = {} THEN 0 ELSE LET x == CHOOSE y \in S : TRUE
                                     IN x + SumOfSet(S \ {x})

\* lines 310-313: (x_idx.mean(), y_idx.mean()) of the pixels of the mask; the
\* frame has one row, so every y is 0
Centroid(segmentation) ==
  <<Fraction(SumOfSet(segmentation), Cardinality(segmentation)), Zero>>

\* variant: every prompt is registered under object 0
PromptFor_ObjectZero(idx, segmentation) ==
  [frame_idx |-> 0, obj_id |-> 0, points |-> <<Centroid(segmentation)>>,
   labels |-> <<1>>]

\* lines 313-320: the arguments of predictor.add_new_points_or_box
PromptFor(idx, segmentation) ==
  [frame_idx |-> 0, obj_id |-> idx, points |-> <<Centroid(segmentation)>>,
   labels |-> <<1>>]

\* lines 306-320: one pass of the loop over enumerate(masks)
RegisterPrompt ==
  /\ m_pc = "prompting"
  /\ obj_idx < Len(masks)
  /\ LET segmentation == masks[obj_idx + 1].segmentation
     IN IF segmentation = NoSegmentation \/ segmentation = {}
        THEN UNCHANGED prompts
        ELSE prompts' = Append(prompts, PromptFor(obj_idx, segmentation))
  /\ obj_idx' = obj_idx + 1
  /\ UNCHANGED <<m_pc, masks, target_width, target_height, background_ratio,
                 background_ids, object_ids, frame_files, frame_idx, mask_dict,
                 result_frame>>
  /\ UNCHANGED <<serverVars, samplerVars, analyzerVars>>

\* lines 306 and 322-323: the loop is over, propagate_in_video is called
StartPropagation ==
  /\ m_pc = "prompting"
  /\ obj_idx = Len(masks)
  /\ m_pc' = "propagate"
  /\ UNCHANGED <<masks, target_width, target_height, background_ratio,
                 background_ids, object_ids, obj_idx, prompts, frame_files,
                 frame_idx, mask_dict, result_frame>>
  /\ UNCHANGED <<serverVars, samplerVars, analyzerVars>>

RECURSIVE PromptsOfFirst(_, _)
\* lines 306-320: the prompts registered by the loop for the first n masks
PromptsOfFirst(ms, n) ==
  IF n = 0 THEN <<>>
  ELSE LET segmentation == ms[n].segmentation
       IN IF segmentation = NoSegmentation \/ segmentation = {}
          THEN PromptsOfFirst(ms, n - 1)
          ELSE Append(PromptsOfFirst(ms, n - 1), PromptFor(n - 1, segmentation))

\* the object ids the predictor tracks: those given a prompt
TrackedIds(ps) == {ps[k].obj_id : k \in 1..Len(ps)}

\* video_segments.get(idx) of line 340: None or an empty dict (written {}), or
\* the dict built at lines 324-327, a set of pairs <<out_obj_id, mask>> with one
\* mask, any set of pixels, per tracked object
MaskDicts(ids, width) ==
  {{<<i, f[i]>> : i \in ids} : f \in [ids -> SUBSET (0..(width - 1))]} \cup {{}}

\* line 333 has been passed: the output file exists, the frames are to be
\* rendered.  The masks are whole-frame or one-pixel masks.
RenderStageInit ==
  /\ m_pc = "render"
  /\ target_width \in 1..SegWidth
  /\ target_height = 1
  /\ background_ratio \in BackgroundRatios
  /\ \E n \in 1..SegMaxMasks :
       masks \in {SortByArea(ms) :
                    ms \in SeqsOfLen({[area |-> target_width,
                                       segmentation |-> 0..(target_width - 1)],
                                      [area |-> 1, segmentation |-> {0}]}, n)}
  /\ background_ids =
       classify_masks_by_area(masks, target_width, target_height,
                              background_ratio).background_ids
  /\ object_ids =
       classify_masks_by_area(masks, target_width, target_height,
                              background_ratio).object_ids
  /\ obj_idx = Len(masks)
  /\ prompts = PromptsOfFirst(masks, Len(masks))
  /\ frame_files \in 1..SegMaxFrames
  /\ frame_idx = 0
  /\ mask_dict = {}
  /\ result_frame = {}

\* variant: background-classified objects are rendered too
Paints_All(obj_id, bg_ids) == TRUE

\* lines 344-346: the mask of obj_id is painted unless obj_id in background_ids
Paints(obj_id, bg_ids) == \A k \in 1..Len(bg_ids) : bg_ids[k] # obj_id

\* lines 341-346: the pixels of the blank frame that get the object colour
RenderedFrame(md, bg_ids) ==
  UNION {entry[2] : entry \in {e \in md : Paints(e[1], bg_ids)}}

\* lines 339-347: one pass of the loop over enumerate(frame_files); frame_idx
\* is the loop's idx, and the number of frames written so far
RenderFrame ==
  /\ m_pc = "render"
  /\ frame_idx < frame_files
  /\ \E md \in MaskDicts(TrackedIds(prompts), target_width) :
       /\ mask_dict' = md
       /\ result_frame' = RenderedFrame(md, background_ids)
  /\ frame_idx' = frame_idx + 1
  /\ UNCHANGED <<m_pc, masks, target_width, target_height, background_ratio,
                 background_ids, object_ids, obj_idx, prompts, frame_files>>
  /\ UNCHANGED <<serverVars, samplerVars, analyzerVars>>

\* lines 339 and 349-352: the loop is over, the writer is released and the path
\* of the output is returned
FinishRender ==
  /\ m_pc = "render"
  /\ frame_idx = frame_files
  /\ m_pc' = "returned"
  /\ UNCHANGED <<masks, target_width, target_height, background_ratio,
                 background_ids, object_ids, obj_idx, prompts, frame_files,
                 frame_idx, mask_dict, result_frame>>
  /\ UNCHANGED <<serverVars, samplerVars, analyzerVars>>

SegmenterInit ==
  /\ SAM2_AVAILABLE = TRUE
  /\ TRANSFORMERS_AVAILABLE = TRUE
  /\ torch = TRUE
  /\ cv2 = TRUE
  /\ ServerInit
  /\ SamplerIdle
  /\ AnalyzerIdle
  /\ ClassifyStageInit \/ PromptStageInit \/ RenderStageInit

SegmenterNext ==
  \/ SortAndClassify
  \/ RegisterPrompt
  \/ StartPropagation
  \/ RenderFrame
  \/ FinishRender

SegmenterSpec == SegmenterInit /\ [][SegmenterNext]_vars


\* ================================================================== claims
Rejected(r) == status[r] \in {"413", "400", "408"}
IngestionSucceeded(r) == Happened(r, "ingest_done")
IsPrefix(a, b) == Len(a) <= Len(b) /\ a = SubSeq(b, 1, Len(a))
StageOrder == <<"ingest_done", "seg_start", "seg_ret", "cls_start", "cls_ret", "cleanup">>
InSegInference(r) == pc[r] \in {"seg_extract", "seg_render"}
InClsInference(r) == pc[r] = "cls_infer"

\* C1: once a call of upload_video has returned or raised, no temp file created
\* during the call (upload temp file, frames directory, segmented video) exists.
C1_NoTempFileSurvives ==
  \A r \in Req : pc[r] = "done" => created[r] \cap files = {}

\* C2: each backend's model is constructed at most once, exactly once as soon as
\* some caller of get_sam2_components / get_video_classifier_components has
\* received a handle, and every caller that received one received that instance.
C2_InitializedOnce ==
  /\ sam2_builds <= 1
  /\ video_builds <= 1
  /\ \A r \in Req :
       /\ handles[r].sam2 # None =>
            sam2_builds = 1 /\ handles[r].sam2 = sam2_predictor
       /\ handles[r].video # None =>
            video_builds = 1 /\ handles[r].video = video_classifier
  /\ \A r1, r2 \in Req :
       /\ handles[r1].sam2 # None /\ handles[r2].sam2 # None =>
            handles[r1].sam2 = handles[r2].sam2
       /\ handles[r1].video # None /\ handles[r2].video # None =>
            handles[r1].video = handles[r2].video

\* C2 witness: two different requests both received a handle of both backends.
C2_Witness ==
  \E r1, r2 \in Req :
    /\ r1 # r2
    /\ handles[r1].sam2 # None /\ handles[r2].sam2 # None
    /\ handles[r1].video # None /\ handles[r2].video # None

\* C3: at most one request is inside the inference section of the segmentation
\* backend and at most one inside that of the classification backend; a request
\* inside holds that backend's inference lock, which is not its init lock.
C3_InferenceSerialized ==
  /\ Cardinality({r \in Req : InSegInference(r)}) <= 1
  /\ Cardinality({r \in Req : InClsInference(r)}) <= 1
  /\ \A r \in Req :
       /\ InSegInference(r) =>
            locks["sam2_infer_lock"] = r /\ locks["sam2_init_lock"] # r
       /\ InClsInference(r) =>
            locks["video_infer_lock"] = r /\ locks["video_init_lock"] # r

\* C3 witness: one request runs segmentation inference while the other holds the
\* segmentation init lock, and likewise for the classifier at some other time.
C3_Witness ==
  \E r1, r2 \in Req :
    /\ r1 # r2
    /\ InSegInference(r1)
    /\ locks["sam2_init_lock"] = r2
    /\ pc[r2] = "sam2_init_check"

\* C4: after a successful ingestion, when segmentation returned no path (failed
\* at some step, or unavailable), classification is started, on the upload temp
\* file, which still exists when classification starts; the request does not end
\* before classification has returned.
C4_ClassifiesRawAfterSegFailure ==
  \A r \in Req :
    (Happened(r, "seg_ret") /\ segmented_path[r] = NoPath /\ pc[r] # "seg_done") =>
      /\ Happened(r, "cls_start")
      /\ classification_target[r] = UploadFile(r)
      /\ (pc[r] = "cls_entry" => UploadFile(r) \in files)
      /\ (pc[r] = "done" => Happened(r, "cls_ret"))

\* C4 witness: segmentation was available and failed, and the raw clip was scored.
C4_Witness ==
  \E r \in Req :
    /\ Sam2DepsAvailable
    /\ pc[r] = "done"
    /\ segmented_path[r] = NoPath
    /\ classification_target[r] = UploadFile(r)
    /\ cls_result[r].case = "scored"

\* C5: a request whose ingestion succeeded ends with a normally returned response;
\* when no score was produced (classification unavailable, nothing decoded, init
\* failed, inference or decoding raised) the reward of that response is 0.0.
C5_NeverRaisesAfterIngestion ==
  \A r \in Req :
    (pc[r] = "done" /\ IngestionSucceeded(r)) =>
      /\ status[r] = "ok"
      /\ score_log[r] = 1
      /\ (cls_result[r].case # "scored" => reward_value[r] = Zero)

\* C5 witness: a request ended after its classification thread raised.
C5_Witness ==
  \E r \in Req :
    /\ pc[r] = "done"
    /\ IngestionSucceeded(r)
    /\ cls_result[r].case = "load_raised"

\* C6: the value classify_segmented_video returns is a fraction in [0, 1]; it is
\* 0.0 when the backend is unavailable, its initialization failed, nothing was
\* decoded, no window was scored, or inference raised.
C6_RewardInUnitInterval ==
  \A r \in Req :
    cls_result[r].case \notin {"none", "load_raised"} =>
      /\ cls_result[r].value[2] > 0
      /\ 0 <= cls_result[r].value[1]
      /\ cls_result[r].value[1] <= cls_result[r].value[2]
      /\ (cls_result[r].case \in {"unavailable", "init_failed", "no_windows",
                                  "no_scores", "raised"}
            => cls_result[r].value = Zero)

\* C6 witness: a mean strictly between 0 and 1 was returned for four windows.
C6_Witness ==
  \E r \in Req :
    /\ cls_result[r].case = "scored"
    /\ 0 < cls_result[r].value[1]
    /\ cls_result[r].value[1] < cls_result[r].value[2]

\* C7: for a request rejected with a client error (413 declared or streamed, 400,
\* 408) neither segmentation nor classification was started, and no reward was
\* computed or logged.
C7_RejectedNeverAnalysed ==
  \A r \in Req :
    Rejected(r) =>
      /\ ~Happened(r, "seg_start")
      /\ ~Happened(r, "cls_start")
      /\ cls_result[r] = NoResult
      /\ score_log[r] = 0
      /\ pc[r] = "done"

\* C7 witness: a request rejected mid-stream after bytes had been written.
C7_Witness ==
  \E r \in Req :
    /\ status[r] = "413"
    /\ total_size[r] > MAX_FILE_SIZE
    /\ UploadFile(r) \in created[r]

\* C8: a request whose declared file_size exceeds MAX_FILE_SIZE is rejected with
\* 413 and never created a temp file.
C8_DeclaredOversizeNoTempFile ==
  \A r \in Req :
    (pc[r] # "idle" /\ file_size[r] > MAX_FILE_SIZE) =>
      /\ status[r] = "413"
      /\ pc[r] = "done"
      /\ created[r] = {}
      /\ total_size[r] = 0

\* C8 witness: a request declared above the limit has been rejected.
C8_Witness ==
  \E r \in Req :
    /\ file_size[r] = MAX_FILE_SIZE + 1
    /\ status[r] = "413"
    /\ pc[r] = "done"

\* C9: within a request the stage events occur in the order ingest, segment,
\* classify, cleanup (a request aborted during ingestion goes straight to
\* cleanup), and from the end of ingestion until classification has returned
\* the upload temp file is still there.
C9_StagesInOrder ==
  \A r \in Req :
    /\ IsPrefix(events[r], StageOrder) \/ events[r] = <<"cleanup">>
    /\ (IngestionSucceeded(r) /\ ~Happened(r, "cls_ret")) => UploadFile(r) \in files
    /\ (Happened(r, "cleanup") /\ IngestionSucceeded(r)) => Happened(r, "cls_ret")

\* C9 witness: a request went through all four stages.
C9_Witness ==
  \E r \in Req : events[r] = StageOrder /\ segmented_path[r] # NoPath

\* C10: for total_frames > frame_count and sequence_count > 1 the sampler returns
\* sequence_count windows, each frame_count consecutive frames of the video; the
\* starts are non-decreasing, the first is 0, the last is total_frames -
\* frame_count, and start i is the integer nearest to
\* i * max_start / (sequence_count - 1), the even one on a tie.
C10_EvenlySpacedWindows ==
  (s_pc = "returned" /\ Len(s_frames) > s_frame_count /\ s_sequence_count > 1) =>
    LET n == s_sequence_count
        max_start == Len(s_frames) - s_frame_count
        start(k) == s_sequences[k][1] - 1
    IN /\ Len(s_sequences) = n
       /\ \A k \in 1..n :
            /\ Len(s_sequences[k]) = s_frame_count
            /\ \A j \in 1..s_frame_count : s_sequences[k][j] = s_frames[start(k) + j]
            /\ LET err == 2 * (start(k) * (n - 1) - (k - 1) * max_start)
               IN /\ err <= n - 1
                  /\ -err <= n - 1
                  /\ (err = n - 1 \/ -err = n - 1) => start(k) % 2 = 0
       /\ \A k \in 1..(n - 1) : start(k) <= start(k + 1)
       /\ start(1) = 0
       /\ start(n) = max_start

\* C10 witness: a video longer than the window, sampled by several windows that
\* do not all start at different frames.
C10_Witness ==
  /\ s_pc = "returned"
  /\ Len(s_frames) > s_frame_count
  /\ s_sequence_count > 1
  /\ Len(s_sequences) = s_sequence_count
  /\ \E k \in 1..(Len(s_sequences) - 1) : s_sequences[k] = s_sequences[k + 1]

\* C11: a decodable video with at least one frame and fewer than frame_count
\* frames yields a frame sequence of length exactly frame_count: its leading
\* frames are the source frames in order, and every remaining frame is a copy of
\* the source's last frame.
C11_ShortVideoPadded ==
  (s_pc = "returned" /\ 1 <= Len(s_frames) /\ Len(s_frames) < s_frame_count) =>
    /\ Len(s_sequences) = 1
    /\ \A k \in 1..Len(s_sequences) :
         /\ Len(s_sequences[k]) = s_frame_count
         /\ \A j \in 1..Len(s_frames) : s_sequences[k][j] = s_frames[j]
         /\ \A j \in (Len(s_frames) + 1)..s_frame_count :
              s_sequences[k][j] = s_frames[Len(s_frames)]

\* C11 witness: a two-frame video sampled with a longer window, so the tail
\* differs from the first frame.
C11_Witness ==
  /\ s_pc = "returned"
  /\ Len(s_frames) = 2
  /\ s_frame_count > Len(s_frames)
  /\ Len(s_sequences) = 1
  /\ s_sequences[1][s_frame_count] = s_frames[2]

\* C12: when ingestion is aborted, by a chunk-read timeout or by the streamed
\* size passing the maximum, the request ends with the client error of that
\* cause (408 for the timeout, 413 for the size), and the partially written
\* upload temp file is gone by the time the error reaches the caller.
C12_AbortedIngestionCleansUp ==
  [][\A r \in Req :
       (pc[r] = "reading" /\ pc'[r] = "done") =>
         /\ UploadFile(r) \in files
         /\ UploadFile(r) \notin files'
         /\ status'[r] \in {"408", "413"}
         /\ status'[r] = "413" <=> total_size'[r] > MAX_FILE_SIZE
         /\ status'[r] = "408" <=> total_size'[r] = total_size[r]
         /\ ~IngestionSucceeded(r)']_vars

\* C12 witness: one request timed out after a chunk had been written, another
\* was cut off for streaming past the maximum.
C12_Witness ==
  \E r, q \in Req :
    /\ pc[r] = "done" /\ status[r] = "408" /\ total_size[r] > 0
    /\ pc[q] = "done" /\ status[q] = "413" /\ total_size[q] > MAX_FILE_SIZE
    /\ UploadFile(r) \in created[r] /\ UploadFile(q) \in created[q]

\* C13: analyze_video returns a value in [0, 1] for every input, reads at most
\* max_frames frames, and returns exactly 0.0 when the video cannot be opened or
\* yields fewer than two frames.
C13_AnalyzeVideoContract ==
  /\ frames_read <= max_frames
  /\ a_pc = "returned" =>
       /\ score[2] > 0
       /\ 0 <= score[1]
       /\ score[1] <= score[2]
       /\ (~a_opened \/ Len(a_video) < 2) => score = Zero

\* C13 witness: a video longer than max_frames was analysed up to the limit and
\* got a score strictly between 0 and 1.
C13_Witness ==
  /\ a_pc = "returned"
  /\ a_opened
  /\ Len(a_video) > max_frames
  /\ frames_read = max_frames
  /\ 0 < score[1]
  /\ score[1] < score[2]

\* C14: under fair scheduling, with every model call terminating, every request
\* whose ingestion succeeded eventually reaches its cleanup and is done, however
\* the concurrent requests interleave and even when another request fails
\* inside segmentation or classification.
C14_IngestedRequestCompletes ==
  \A r \in Req :
    IngestionSucceeded(r) ~> (pc[r] = "done" /\ Happened(r, "cleanup"))

\* C14 witness: two ingested requests are both done although one of them failed
\* inside the classification inference section and the other was scored.
C14_Witness ==
  \E r, q \in Req :
    /\ IngestionSucceeded(r) /\ IngestionSucceeded(q)
    /\ pc[r] = "done" /\ pc[q] = "done"
    /\ cls_result[r].case = "raised"
    /\ cls_result[q].case = "scored"
    /\ \A l \in LockNames : locks[l] = None

LocksHeldBy(r) == {l \in LockNames : locks[l] = r}
WaitsFor(r) ==
  CASE pc[r] = "sam2_init_acquire" -> {"sam2_init_lock"}
    [] pc[r] = "sam2_infer_acquire" -> {"sam2_infer_lock"}
    [] pc[r] = "video_init_acquire" -> {"video_init_lock"}
    [] pc[r] = "video_infer_acquire" -> {"video_infer_lock"}
    [] OTHER -> {}

\* C15: no thread ever holds two of the four locks at the same time, so no
\* interleaving of concurrent requests deadlocks on them: a thread that waits
\* for a lock holds none, and the lock it waits for is free or held by a
\* thread that is not waiting.
C15_AtMostOneLockHeld ==
  /\ \A r \in Req : Cardinality(LocksHeldBy(r)) <= 1
  /\ \A r \in Req : WaitsFor(r) # {} => LocksHeldBy(r) = {}
  /\ \A r \in Req : \A l \in WaitsFor(r) :
       locks[l] # None => (locks[l] \in Req /\ WaitsFor(locks[l]) = {}
                             /\ pc[locks[l]] \notin {"idle", "reading", "done"})

\* C15 witness: one thread holds the segmentation inference lock while another
\* thread holds the classification inference lock.
C15_Witness ==
  \E r, q \in Req :
    /\ r # q
    /\ locks["sam2_infer_lock"] = r
    /\ locks["video_infer_lock"] = q

Sam2Uninitialized ==
  sam2_predictor = None /\ sam2_mask_generator = None
Sam2Initialized ==
  sam2_predictor # None /\ sam2_mask_generator # None
VideoUninitialized ==
  video_classifier = None /\ video_device = NoLocal.device
VideoInitialized ==
  video_processor # None /\ video_classifier # None /\ video_device = DEVICE

\* C16: outside an initialization in progress a backend is wholly uninitialized
\* or wholly initialized, also after attempts that raised part-way through; a
\* normal return of get_sam2_components carries the predictor and the mask
\* generator, a normal return of get_video_classifier_components carries the
\* processor, the classifier and the device.
C16_WhollyInitialized ==
  /\ locks["sam2_init_lock"] = None => (Sam2Uninitialized \/ Sam2Initialized)
  /\ locks["video_init_lock"] = None => (VideoUninitialized \/ VideoInitialized)
  /\ \A r \in Req :
       /\ pc[r] \in {"sam2_infer_acquire", "seg_extract"} =>
            (local[r].predictor # None /\ local[r].mask_generator # None)
       /\ pc[r] \in {"video_infer_acquire", "cls_infer"} =>
            /\ local[r].processor # None
            /\ local[r].classifier # None
            /\ local[r].device = DEVICE

\* C17 (as stated): once a backend's handle has been created, no later call of
\* its getter acquires that backend's initialization lock.
C17_NoInitLockOnceCreated ==
  [][\A r \in Req :
       /\ (sam2_predictor # None /\ locks["sam2_init_lock"] # r)
            => locks'["sam2_init_lock"] # r
       /\ (video_classifier # None /\ locks["video_init_lock"] # r)
            => locks'["video_init_lock"] # r]_vars

\* C17 (amended): once a backend's handle has been created, a later call of its
\* getter takes the initialization lock, finds the handle, and leaves with that
\* same handle: it constructs nothing, changes no global of the backend, and
\* has released the lock when it returns.
C17_LaterCallReturnsExistingHandle ==
  [][\A r \in Req :
       /\ (pc[r] = "sam2_init_check" /\ sam2_predictor # None /\ pc'[r] # pc[r]) =>
            /\ pc'[r] = "sam2_infer_acquire"
            /\ local'[r].predictor = sam2_predictor
            /\ handles'[r].sam2 = sam2_predictor
            /\ locks'["sam2_init_lock"] = None
            /\ UNCHANGED sam2Globals
       /\ (pc[r] = "video_init_check" /\ video_classifier # None /\ pc'[r] # pc[r]) =>
            /\ pc'[r] = "video_infer_acquire"
            /\ local'[r].classifier = video_classifier
            /\ handles'[r].video = video_classifier
            /\ locks'["video_init_lock"] = None
            /\ UNCHANGED videoGlobals]_vars

\* C17 witness: a request that entered the classifier's getter after another
\* request had created the handle has returned with that handle.
C17_Witness ==
  \E r, q \in Req :
    /\ r # q
    /\ handles[q].video # None
    /\ handles[r].video = handles[q].video
    /\ Happened(q, "cls_ret")
    /\ pc[r] = "video_infer_acquire"

Count(r, e) == Cardinality({i \in 1..Len(events[r]) : events[r][i] = e})

\* C18: the file passed to classification is the segmented video exactly when
\* segment_uploaded_video returned a path for this request, and the raw upload
\* temp file otherwise; classification is called exactly once per request whose
\* ingestion succeeded, and never for another request.
C18_ClassificationTargetAndCount ==
  \A r \in Req :
    /\ Count(r, "cls_start") <= 1
    /\ Happened(r, "cls_start") =>
         /\ IngestionSucceeded(r)
         /\ classification_target[r] = SegmentedFile(r) <=> segmented_path[r] # NoPath
         /\ classification_target[r] = UploadFile(r) <=> segmented_path[r] = NoPath
         /\ segmented_path[r] \in {NoPath, SegmentedFile(r)}
    /\ (pc[r] = "done" /\ IngestionSucceeded(r)) => Count(r, "cls_start") = 1
    /\ (pc[r] = "done" /\ ~IngestionSucceeded(r)) => Count(r, "cls_start") = 0

\* C18 witness: of two finished requests one had its segmented video classified
\* and the other its raw upload.
C18_Witness ==
  \E r, q \in Req :
    /\ pc[r] = "done" /\ pc[q] = "done"
    /\ Count(r, "cls_start") = 1 /\ Count(q, "cls_start") = 1
    /\ classification_target[r] = SegmentedFile(r)
    /\ classification_target[q] = UploadFile(q)

\* C19: the segmented-video file is created only if segmentation succeeds:
\* whenever segment_uploaded_video has returned None for a request, no segmented
\* file created by that call exists on disk.
C19_NoSegmentedFileAfterFailure ==
  \A r \in Req :
    (Happened(r, "seg_ret") /\ segmented_path[r] = NoPath) =>
      SegmentedFile(r) \notin files

\* C20 (as stated): during streamed ingestion the number of bytes written to the
\* upload temp file (total_size, lines 566-567) never exceeds MAX_FILE_SIZE, also
\* in the request that is rejected for exceeding the limit mid-stream.
C20_WrittenNeverExceedsMax ==
  \A r \in Req : total_size[r] <= MAX_FILE_SIZE

\* C20 (amended): the bytes written never exceed MAX_FILE_SIZE by more than one
\* chunk, and they exceed MAX_FILE_SIZE only in a request that is rejected with
\* 413 at that very chunk and whose upload temp file has been removed.
C20_WrittenExceedsMaxByOneChunkAtMost ==
  \A r \in Req :
    /\ total_size[r] <= MAX_FILE_SIZE + CHUNK_SIZE
    /\ total_size[r] > MAX_FILE_SIZE =>
         /\ pc[r] = "done"
         /\ status[r] = "413"
         /\ UploadFile(r) \in created[r]
         /\ UploadFile(r) \notin files
    /\ pc[r] = "reading" => total_size[r] <= MAX_FILE_SIZE

\* C20 witness: a request was rejected mid-stream after its last chunk had been
\* written past the maximum.
C20_Witness ==
  \E r \in Req :
    /\ pc[r] = "done"
    /\ status[r] = "413"
    /\ file_size[r] <= MAX_FILE_SIZE
    /\ total_size[r] > MAX_FILE_SIZE
    /\ UploadFile(r) \notin files

\* the frame total after the padding of lines 411-414
PaddedTotal == Max(Len(s_frames), s_frame_count)
SingleWindowCase == s_sequence_count <= 1 \/ PaddedTotal <= s_frame_count
\* exactly one window, of length frame_count, starting at index 0
OneWindowFromStart ==
  /\ Len(s_sequences) = 1
  /\ Len(s_sequences[1]) = s_frame_count
  /\ \A j \in 1..s_frame_count :
       s_sequences[1][j] = s_frames[Min(j, Len(s_frames))]

\* C21 (as stated): when sequence_count <= 1 or the padded frame total is <=
\* frame_count, load_video_frame_sequences returns exactly one window, which
\* starts at index 0 and has length frame_count.
C21_SingleWindow ==
  (s_pc = "returned" /\ SingleWindowCase) => OneWindowFromStart

\* C21 (amended): the same for a video that yields at least one frame; a video
\* that yields no frame gets no window at all.
C21_SingleWindowOfNonEmptyVideo ==
  /\ (s_pc = "returned" /\ SingleWindowCase /\ Len(s_frames) >= 1) => OneWindowFromStart
  /\ (s_pc = "returned" /\ Len(s_frames) = 0) => s_sequences = <<>>

\* C21 witness: a video longer than frame_count sampled with sequence_count <= 1
\* gave its first frame_count frames as the only window.
C21_Witness ==
  /\ s_pc = "returned"
  /\ s_sequence_count <= 1
  /\ Len(s_frames) > s_frame_count
  /\ OneWindowFromStart

Elems(s) == {s[i] : i \in 1..Len(s)}
NoDuplicates(s) == Cardinality(Elems(s)) = Len(s)

\* C22: classify_masks_by_area partitions the mask indices: every index is in
\* exactly one of the two lists, and it is in the background list if and only
\* if area / (frame_width * frame_height) >= background_ratio; as the masks are
\* sorted by area descending before the call, the background indices are a
\* prefix 0..k-1 of the sorted order.
C22_MasksPartitionedByArea ==
  m_pc = "classified" =>
    /\ Elems(background_ids) \cup Elems(object_ids) = 0..(Len(masks) - 1)
    /\ Elems(background_ids) \cap Elems(object_ids) = {}
    /\ NoDuplicates(background_ids) /\ NoDuplicates(object_ids)
    /\ \A i \in 0..(Len(masks) - 1) :
         i \in Elems(background_ids) <=>
           masks[i + 1].area * background_ratio[2]
             >= background_ratio[1] * target_width * target_height
    /\ \A i \in 1..(Len(masks) - 1) : masks[i].area >= masks[i + 1].area
    /\ background_ids = [i \in 1..Len(background_ids) |-> i - 1]

\* C22 witness: of two masks proposed in ascending order of area, the larger
\* one is background and the smaller one is an object.
C22_Witness ==
  /\ m_pc = "classified"
  /\ Len(masks) = 2
  /\ masks[1].area > masks[2].area
  /\ background_ids = <<0>>
  /\ object_ids = <<1>>

PromptsOf(i) == {k \in 1..Len(prompts) : prompts[k].obj_id = i}
HasPixels(i) ==
  masks[i + 1].segmentation # NoSegmentation /\ masks[i + 1].segmentation # {}
\* the one prompt of mask i: positive, at frame 0, at the mean of the mask's pixels
OnePromptAtCentroid(i) ==
  /\ Cardinality(PromptsOf(i)) = 1
  /\ \A k \in PromptsOf(i) :
       /\ prompts[k].frame_idx = 0
       /\ prompts[k].labels = <<1>>
       /\ Len(prompts[k].points) = 1
       /\ LET x == prompts[k].points[1][1]
              px == masks[i + 1].segmentation
          IN /\ px # NoSegmentation
             /\ x[1] * Cardinality(px) = SumOfSet(px) * x[2]
             /\ \E lo, hi \in px : lo * x[2] <= x[1] /\ x[1] <= hi * x[2]

\* C23 (as stated): when propagation starts, every mask proposed on frame 0,
\* background and object alike, has exactly one positive point prompt, at its
\* pixel centroid, at frame 0, under its own index in the area-sorted list.
C23_EveryMaskPrompted ==
  m_pc = "propagate" => \A i \in 0..(Len(masks) - 1) : OnePromptAtCentroid(i)

\* C23 (amended): when propagation starts, every proposed mask that has at
\* least one pixel, background and object alike, has exactly one such prompt;
\* a mask without segmentation or without pixels has none.
C23_EveryMaskWithPixelsPrompted ==
  m_pc = "propagate" =>
    \A i \in 0..(Len(masks) - 1) :
      IF HasPixels(i) THEN OnePromptAtCentroid(i) ELSE PromptsOf(i) = {}

\* C23 witness: a background mask and an object mask, both with pixels, were
\* each given their prompt before propagation.
C23_Witness ==
  /\ m_pc = "propagate"
  /\ background_ids = <<0>>
  /\ object_ids = <<1>>
  /\ HasPixels(0) /\ HasPixels(1)
  /\ Len(prompts) = 2
  /\ prompts[1].points # prompts[2].points

Rendering == m_pc \in {"render", "returned"}
InBackgroundMaskOnly(px) ==
  /\ \E e \in mask_dict : e[1] \in Elems(background_ids) /\ px \in e[2]
  /\ \A e \in mask_dict : px \in e[2] => e[1] \in Elems(background_ids)

\* C24: the rendered video has exactly as many frames as were extracted, and in
\* each output frame a pixel has the highlight colour if and only if it is in
\* the propagated mask of at least one object that is not background-classified;
\* every other pixel, also one covered by background masks only, stays blank.
C24_RenderHighlightsObjectsOnly ==
  /\ Rendering => frame_idx <= frame_files
  /\ m_pc = "returned" => frame_idx = frame_files
  /\ (Rendering /\ frame_idx > 0) =>
       \A px \in 0..(target_width - 1) :
         /\ px \in result_frame <=>
              \E e \in mask_dict : e[1] \notin Elems(background_ids) /\ px \in e[2]
         /\ InBackgroundMaskOnly(px) => px \notin result_frame
  /\ Rendering => result_frame \subseteq 0..(target_width - 1)

\* C24 witness: in the last frame written one pixel is covered by a background
\* mask only and is blank, and another pixel is highlighted.
C24_Witness ==
  /\ m_pc = "returned"
  /\ frame_files > 1
  /\ \E px, qx \in 0..(target_width - 1) :
       /\ InBackgroundMaskOnly(px)
       /\ px \notin result_frame
       /\ qx \in result_frame

OwnFiles(r) == {UploadFile(r), FramesDir(r), SegmentedFile(r)}
\* what request r itself brings to its segmentation: an upload that opens, and
\* backends that are installed
OwnSegmentationInput(r) == Openable(r, UploadFile(r)) /\ Sam2DepsAvailable

\* C25: each attempt is independent: what a request is scored on depends on its
\* own upload and on backend availability only, never on the requests that ran
\* before it or beside it.  In one run: a request touches its own temp files
\* only, and a request that enters the segmentation inference with an upload
\* that opens finds a mask generator to run, whatever became of the other
\* requests' initializations.
C25_AttemptsIndependent ==
  \A r \in Req :
    /\ created[r] \subseteq OwnFiles(r)
    /\ Happened(r, "cls_start") => classification_target[r] \in OwnFiles(r)
    /\ (pc[r] = "seg_extract" /\ OwnSegmentationInput(r)) =>
         local[r].mask_generator # None

====
